---- MODULE Spec2Model ----
(***************************************************************************)
(* Model of app.py of the Movie Recommender: fetch_poster (one HTTP GET    *)
(* against TMDB with every failure mapped to a placeholder URL) and        *)
(* recommend (row lookup, stable descending sort of the similarity row,    *)
(* ranks 2..6, one fetch_poster per selected row).                         *)
(***************************************************************************)
EXTENDS Integers, Sequences, FiniteSets, TLC

VARIABLES
    movies,                     \* the catalog: sequence of [movie_id, title]
    similarity,                 \* square matrix, row-aligned with movies
    pc,                         \* where the script stands
    movie,                      \* argument of the current recommend call
    distances,                  \* sorted (index, score) pairs of the call
    i,                          \* loop iterations of recommend completed
    recommended_movie_names,
    recommended_movie_posters,
    diagnostics,                \* st.error / st.warning of the current call
    httpLog,                    \* URLs requested (requests.get) by the call
    prev,                       \* how the previous call relates to this one
    fetched,                    \* the last direct fetch_poster call
    outputs                     \* URLs direct fetch_poster calls have returned

vars == <<movies, similarity, pc, movie, distances, i, recommended_movie_names,
          recommended_movie_posters, diagnostics, httpLog, prev, fetched, outputs>>

---------------------------------------------------------------------------
(* Bounds of the model *)

MaxN == 7            \* largest catalog
MaxScore == 2        \* scores of the exhaustively enumerated matrices are 0..MaxScore

---------------------------------------------------------------------------
(* Program constants *)

TopK == 5            \* distances[1:6] holds at most 5 entries
FirstRank == 1       \* distances[1:6] starts at list position 1
Columns == 5         \* st.columns(5)

ApiBase == "https://api.themoviedb.org/3/movie/"
ApiQuery == "?api_key=8265bd1679663a7ea12ac168da84d2e8&language=en-US"
\* Mutant: the base of another image size.
CdnBase_original == "https://image.tmdb.org/t/p/original/"

CdnBase == "https://image.tmdb.org/t/p/w500/"
NoPosterUrl == "https://placehold.co/500x750/cccccc/000000?text=No+Poster"
TimeoutUrl == "https://placehold.co/500x750/ff0000/ffffff?text=Timeout+Error"
ConnectionUrl == "https://placehold.co/500x750/ff0000/ffffff?text=Connection+Error"
ApiErrorUrl == "https://placehold.co/500x750/ff0000/ffffff?text=API+Error"
\* Mutant: the text of the clause above it, copied and not edited.
UnknownUrl_copied == "https://placehold.co/500x750/ff0000/ffffff?text=API+Error"

UnknownUrl == "https://placehold.co/500x750/ff0000/ffffff?text=Unknown+Error"


---------------------------------------------------------------------------
(* JSON values of the poster_path field, and Python's truth value of them *)

JsonNull == [t |-> "null", s |-> "", n |-> 0]
JsonStr(str) == [t |-> "str", s |-> str, n |-> 0]
JsonNum(num) == [t |-> "num", s |-> "", n |-> num]

\* Mutant: "if poster_path is not None" in place of "if poster_path".
Truthy_notnone(v) == v.t # "null"

Truthy(v) ==
    CASE v.t = "null" -> FALSE
      [] v.t = "str" -> v.s # ""
      [] v.t = "num" -> v.n # 0

---------------------------------------------------------------------------
(* What one HTTP attempt can do: requests.get raises, or it returns a      *)
(* response with a status code and a body.                                 *)

PosterPaths == {"/kqjL17yufvn9OVLyXYpvtyrFfak.jpg"}

Body(decodable, json_exc, is_dict, has_key, poster_path) ==
    [decodable |-> decodable, json_exc |-> json_exc, is_dict |-> is_dict,
     has_key |-> has_key, poster_path |-> poster_path]

\* response.json() on an undecodable body raises requests' JSONDecodeError
\* (a RequestException) or, with an older requests, a plain ValueError.
UndecodableBodies ==
    {Body(FALSE, e, FALSE, FALSE, JsonNull) : e \in {"JSONDecodeError", "ValueError"}}

PosterValues ==
    {JsonNull, JsonStr(""), JsonNum(0), JsonNum(7)} \cup {JsonStr(p) : p \in PosterPaths}

DecodableBodies ==
    {Body(TRUE, "None", FALSE, FALSE, JsonNull),      \* JSON that is no object
     Body(TRUE, "None", TRUE, FALSE, JsonNull)}       \* object without the key
    \cup {Body(TRUE, "None", TRUE, TRUE, v) : v \in PosterValues}

Bodies == UndecodableBodies \cup DecodableBodies

Raised(exc) ==
    [exc |-> exc, status_code |-> 0, body |-> Body(FALSE, "None", FALSE, FALSE, JsonNull)]

Response(status_code, body) ==
    [exc |-> "None", status_code |-> status_code, body |-> body]

GetExceptions ==
    {"ReadTimeout", "ConnectTimeout", "ConnectionError", "SSLError",
     "TooManyRedirects", "ValueError"}

HttpAttempts ==
    {Raised(e) : e \in GetExceptions}
    \cup {Response(200, b) : b \in Bodies}
    \cup {Response(sc, b) : sc \in {404, 500},
                            b \in {Body(TRUE, "None", TRUE, FALSE, JsonNull),
                                   Body(FALSE, "JSONDecodeError", FALSE, FALSE, JsonNull)}}

\* The classes an exception is an instance of (its own and its bases).
Classes(exc) ==
    CASE exc = "ReadTimeout" -> {"ReadTimeout", "Timeout", "RequestException", "Exception"}
      [] exc = "ConnectTimeout" ->
            {"ConnectTimeout", "ConnectionError", "Timeout", "RequestException", "Exception"}
      [] exc = "ConnectionError" -> {"ConnectionError", "RequestException", "Exception"}
      [] exc = "SSLError" -> {"SSLError", "ConnectionError", "RequestException", "Exception"}
      [] exc = "HTTPError" -> {"HTTPError", "RequestException", "Exception"}
      [] exc = "TooManyRedirects" -> {"TooManyRedirects", "RequestException", "Exception"}
      [] exc = "JSONDecodeError" ->
            {"JSONDecodeError", "InvalidJSONError", "RequestException", "ValueError", "Exception"}
      [] OTHER -> {exc, "Exception"}

---------------------------------------------------------------------------
(* fetch_poster *)

Diag(level, kind, movie_id, title) ==
    [level |-> level, kind |-> kind, movie_id |-> movie_id, title |-> title]
NoDiag == Diag("none", "none", 0, "")

ApiUrl(movie_id) == ApiBase \o ToString(movie_id) \o ApiQuery

raise_for_status(status_code) == status_code >= 400 /\ status_code < 600

\* The try block: what it returns, or the exception it raises.
TryBlock(movie_id, a) ==
    IF a.exc # "None" THEN [raised |-> a.exc, url |-> "", diag |-> NoDiag]
    ELSE IF raise_for_status(a.status_code)
        THEN [raised |-> "HTTPError", url |-> "", diag |-> NoDiag]
    ELSE IF ~a.body.decodable
        THEN [raised |-> a.body.json_exc, url |-> "", diag |-> NoDiag]
    ELSE IF ~a.body.is_dict
        THEN [raised |-> "AttributeError", url |-> "", diag |-> NoDiag]
    ELSE LET poster_path == IF a.body.has_key THEN a.body.poster_path ELSE JsonNull
         IN  IF Truthy(poster_path)
             THEN IF poster_path.t = "str"
                  THEN [raised |-> "None", url |-> CdnBase \o poster_path.s, diag |-> NoDiag]
                  ELSE [raised |-> "TypeError", url |-> "", diag |-> NoDiag]
             ELSE [raised |-> "None", url |-> NoPosterUrl,
                   diag |-> Diag("warning", "no poster path", movie_id, "")]

\* Mutant: the catch-all clause is missing.
Handlers_nocatchall ==
    <<[class |-> "Timeout", url |-> TimeoutUrl, kind |-> "timed out"],
      [class |-> "ConnectionError", url |-> ConnectionUrl, kind |-> "connection error"],
      [class |-> "RequestException", url |-> ApiErrorUrl, kind |-> "error fetching poster"]>>

\* Mutant: the ConnectionError clause is written before the Timeout clause.
Handlers_reordered ==
    <<[class |-> "ConnectionError", url |-> ConnectionUrl, kind |-> "connection error"],
      [class |-> "Timeout", url |-> TimeoutUrl, kind |-> "timed out"],
      [class |-> "RequestException", url |-> ApiErrorUrl, kind |-> "error fetching poster"],
      [class |-> "Exception", url |-> UnknownUrl, kind |-> "unexpected error"]>>

\* The except clauses, in the order they are written.
Handlers ==
    <<[class |-> "Timeout", url |-> TimeoutUrl, kind |-> "timed out"],
      [class |-> "ConnectionError", url |-> ConnectionUrl, kind |-> "connection error"],
      [class |-> "RequestException", url |-> ApiErrorUrl, kind |-> "error fetching poster"],
      [class |-> "Exception", url |-> UnknownUrl, kind |-> "unexpected error"]>>

\* The first except clause that matches the raised exception; 0 when none does.
Handler(exc) ==
    LET matching == {j \in 1..Len(Handlers) : Handlers[j].class \in Classes(exc)}
    IN  IF matching = {} THEN 0
        ELSE CHOOSE j \in matching : \A m \in matching : j <= m

\* url and diag of the call, or the exception that leaves it (raised # "None").
fetch_poster(movie_id, a) ==
    LET t == TryBlock(movie_id, a)
        h == Handler(t.raised)
    IN  IF t.raised = "None" THEN t
        ELSE IF h = 0 THEN t
        ELSE [raised |-> "None", url |-> Handlers[h].url,
              diag |-> Diag("error", Handlers[h].kind, movie_id, "")]

---------------------------------------------------------------------------
(* recommend *)

\* Mutant: "movie not in movies['title']" tests the Series' index labels.
Titles_labels == {ToString(k - 1) : k \in 1..Len(movies)}

\* movies['title'].values
Titles == {movies[k].title : k \in 1..Len(movies)}

\* movies[movies['title'] == movie].index[0], as a 0-based row position
IndexOf(title) ==
    (CHOOSE k \in 1..Len(movies) :
        /\ movies[k].title = title
        /\ \A m \in 1..(k - 1) : movies[m].title # title) - 1

\* movies.iloc[idx]
Row(idx) == movies[idx + 1]

\* list(enumerate(row)): pairs <<0-based position, score>>
Enumerate(row) == [k \in 1..Len(row) |-> <<k - 1, row[k]>>]

\* sorted(..., reverse=True, key=lambda x: x[1]): descending by score, and
\* stable, so equal scores keep the order of their positions.
InsertDesc(s, x) ==
    LET k == Cardinality({j \in 1..Len(s) : s[j][2] >= x[2]})
    IN  SubSeq(s, 1, k) \o <<x>> \o SubSeq(s, k + 1, Len(s))

RECURSIVE SortedDesc(_)
SortedDesc(s) ==
    IF s = <<>> THEN <<>>
    ELSE InsertDesc(SortedDesc(SubSeq(s, 1, Len(s) - 1)), s[Len(s)])

\* s[start:stop] of Python, for 0 <= start <= stop
Slice(s, start, stop) ==
    SubSeq(s, start + 1, IF stop < Len(s) THEN stop ELSE Len(s))

Distances(title) == SortedDesc(Enumerate(similarity[IndexOf(title) + 1]))

\* Mutant: distances[1:7].
Selected_seven(d) == Slice(d, FirstRank, FirstRank + TopK + 1)

\* distances[1:6]
Selected(d) == Slice(d, FirstRank, FirstRank + TopK)

\* Mutant: the loop is left at the first fetch that yields an error placeholder.
LoopDone_break(sel, k, posters) ==
    \/ k = Len(sel)
    \/ k > 0 /\ posters[k] \in {TimeoutUrl, ConnectionUrl, ApiErrorUrl, UnknownUrl}

\* "for i in distances[1:6]" has run k times over sel and is exhausted.
LoopDone(sel, k, posters) == k = Len(sel)

NotFoundDiag(title) == Diag("error", "not found", 0, title)

\* How a call relates to the one before it: that one found no row ("notfound"),
\* it was for the same title ("same"), or neither, or there was none ("fresh").
Relation(title) ==
    IF movie = "" THEN "fresh"
    ELSE IF \A k \in 1..Len(movies) : movies[k].title # movie THEN "notfound"
    ELSE IF movie = title THEN "same"
    ELSE "fresh"

\* recommend(title) up to its first fetch; the not-found branch returns at once,
\* and so does a call whose loop has nothing to run over.
RecommendCall(title) ==
    /\ pc = "idle"
    /\ movie' = title
    /\ prev' = Relation(title)
    /\ recommended_movie_names' = <<>>
    /\ recommended_movie_posters' = <<>>
    /\ httpLog' = <<>>
    /\ i' = 0
    /\ IF title \notin Titles
       THEN /\ diagnostics' = <<NotFoundDiag(title)>>
            /\ distances' = <<>>
            /\ pc' = "returned"
       ELSE /\ diagnostics' = <<>>
            /\ distances' = Distances(title)
            /\ pc' = IF LoopDone(Selected(distances'), 0, <<>>) THEN "returned" ELSE "loop"
    /\ UNCHANGED <<movies, similarity, fetched, outputs>>

\* The row the loop is at.
Current == Selected(distances)[i + 1]

\* fetch_poster sends its one GET.
HttpGet ==
    /\ pc = "loop"
    /\ i < Len(Selected(distances))
    /\ httpLog' = Append(httpLog, ApiUrl(Row(Current[1]).movie_id))
    /\ pc' = "http"
    /\ UNCHANGED <<movies, similarity, movie, distances, i, recommended_movie_names,
                   recommended_movie_posters, diagnostics, prev, fetched, outputs>>

\* The attempt ends as a does, fetch_poster returns, and the loop body appends;
\* after the last row, recommend returns the two lists.
HttpDone(a) ==
    /\ pc = "http"
    /\ LET r == fetch_poster(Row(Current[1]).movie_id, a)
       IN  IF r.raised = "None"
           THEN /\ recommended_movie_posters' = Append(recommended_movie_posters, r.url)
                /\ recommended_movie_names' =
                       Append(recommended_movie_names, Row(Current[1]).title)
                /\ diagnostics' =
                       IF r.diag = NoDiag THEN diagnostics ELSE Append(diagnostics, r.diag)
                /\ i' = i + 1
                /\ pc' = IF LoopDone(Selected(distances), i', recommended_movie_posters')
                         THEN "returned" ELSE "loop"
           ELSE /\ pc' = "crashed"
                /\ UNCHANGED <<recommended_movie_posters, recommended_movie_names,
                               diagnostics, i>>
    /\ UNCHANGED <<movies, similarity, movie, distances, httpLog, prev, fetched, outputs>>

\* The button handler's rendering loop reads the two returned lists; the script
\* run ends, its locals are gone, and the page waits for the next click.
Render ==
    /\ pc = "returned"
    /\ Len(recommended_movie_names) <= Columns
    /\ pc' = "idle"
    /\ recommended_movie_names' = <<>>
    /\ recommended_movie_posters' = <<>>
    /\ diagnostics' = <<>>
    /\ httpLog' = <<>>
    /\ distances' = <<>>
    /\ i' = 0
    /\ UNCHANGED <<movies, similarity, movie, prev, fetched, outputs>>

---------------------------------------------------------------------------
(* The loaded model files: catalogs and similarity matrices *)

TitlePool ==
    <<"Avatar", "Batman", "Casino", "Dune", "Eraser", "Fargo", "Gravity", "Heat",
      "Inception", "Jaws">>

IdPool == <<19995, 268, 524, 438631, 9268, 275, 49047, 949, 27205, 578>>

AbsentTitles == {"avatar", "Zodiac"}

\* n rows; row dupe (when not 0) repeats the title of row 1.
Catalog(n, dupe) ==
    [k \in 1..n |-> [movie_id |-> IdPool[k],
                     title |-> IF k = dupe THEN TitlePool[1] ELSE TitlePool[k]]]

ExhaustiveSizes == {1, 2}

\* Scores in tenths.  cosine: symmetric, each row's own entry strictly the largest;
\* flat: every pair equally similar (identical feature vectors);
\* kernel: an unnormalised dot product, where a row's own entry is not the largest.
Shapes == {"cosine", "flat", "kernel"}

Shaped(n, shape) ==
    [r \in 1..n |-> [c \in 1..n |->
        CASE shape = "cosine" -> IF r = c THEN 10 ELSE (r * c + r + c) % 10
          [] shape = "flat" -> 10
          [] shape = "kernel" -> r * c]]

\* Every matrix over 0..MaxScore for the smallest catalogs, every shape while
\* no query reaches the cap of TopK results, and the cosine shape beyond.
Matrices(n) ==
    IF n \in ExhaustiveSizes THEN [1..n -> [1..n -> 0..MaxScore]]
    ELSE IF n <= TopK THEN {Shaped(n, shape) : shape \in Shapes}
    ELSE {Shaped(n, "cosine")}

Dupes(n) == IF n < TopK THEN {0} \cup 2..n ELSE {0}

\* movie_list = movies['title'].values, what the selectbox offers
movie_list == {movies[k].title : k \in 1..Len(movies)}

NoFetch == [movie_id |-> 0, attempt |-> Raised("None"), result |-> TryBlock(0, Raised("None"))]

Init ==
    /\ \E n \in 1..MaxN :
          /\ movies \in {Catalog(n, dupe) : dupe \in Dupes(n)}
          /\ similarity \in Matrices(n)
    /\ pc = "idle"
    /\ movie = ""
    /\ distances = <<>>
    /\ i = 0
    /\ recommended_movie_names = <<>>
    /\ recommended_movie_posters = <<>>
    /\ diagnostics = <<>>
    /\ httpLog = <<>>
    /\ prev = "fresh"
    /\ fetched = NoFetch
    /\ outputs = {}

Next ==
    \/ \E title \in movie_list \cup AbsentTitles : RecommendCall(title)
    \/ HttpGet
    \/ \E a \in HttpAttempts : HttpDone(a)
    \/ Render

Spec == Init /\ [][Next]_vars

---------------------------------------------------------------------------
(* fetch_poster called on its own *)

FetchCall(movie_id) ==
    /\ pc \in {"idle", "fetched"}
    /\ httpLog' = <<ApiUrl(movie_id)>>
    /\ fetched' = [NoFetch EXCEPT !.movie_id = movie_id]
    /\ pc' = "fetching"
    /\ UNCHANGED <<movies, similarity, movie, distances, i, recommended_movie_names,
                   recommended_movie_posters, diagnostics, prev, outputs>>

FetchReturn(a) ==
    /\ pc = "fetching"
    /\ fetched' = [movie_id |-> fetched.movie_id, attempt |-> a,
                   result |-> fetch_poster(fetched.movie_id, a)]
    /\ outputs' = IF fetched'.result.raised = "None"
                  THEN outputs \cup {fetched'.result.url} ELSE outputs
    /\ pc' = "fetched"
    /\ UNCHANGED <<movies, similarity, movie, distances, i, recommended_movie_names,
                   recommended_movie_posters, diagnostics, httpLog, prev>>

\* A direct call is also tried on bodies with other poster paths.
ExtraPosterPaths == {"/a.jpg", "poster.png"}

FetchAttempts ==
    HttpAttempts
    \cup {Response(200, Body(TRUE, "None", TRUE, TRUE, JsonStr(p))) : p \in ExtraPosterPaths}

NextFetch ==
    \/ \E k \in 1..Len(movies) : FetchCall(movies[k].movie_id)
    \/ \E a \in FetchAttempts : FetchReturn(a)

\* The largest catalog supplies the movie ids.
InitFetch == Init /\ Len(movies) = MaxN

SpecFetch == InitFetch /\ [][NextFetch]_vars

---------------------------------------------------------------------------
(* What the properties below speak of *)

CatalogSize == Len(movies)
CatalogTitles == {movies[k].title : k \in 1..CatalogSize}
Occurrences(title) == Cardinality({k \in 1..CatalogSize : movies[k].title = title})

\* The catalog row (from 1) a present query title stands for: its first one.
QueryRow ==
    CHOOSE k \in 1..CatalogSize :
        movies[k].title = movie /\ \A m \in 1..(k - 1) : movies[m].title # movie

\* The similarity score of catalog row r against the query row.
Score(r) == similarity[QueryRow][r]

\* The catalog row (from 1) behind the k-th returned name: the loop takes the
\* sorted pairs from the second on.
RankRow(k) == distances[k + 1][1] + 1
ReturnedRows == {RankRow(k) : k \in 1..Len(recommended_movie_names)}

\* 5 names, or n - 1 of a catalog of at most 6.
ExpectedCount == IF CatalogSize <= 6 THEN CatalogSize - 1 ELSE 5

Found == movie \in CatalogTitles

ErrorPlaceholders == {TimeoutUrl, ConnectionUrl, ApiErrorUrl, UnknownUrl}
Placeholders == ErrorPlaceholders \cup {NoPosterUrl}
IsComposed(url) ==
    /\ Len(url) > Len("https://image.tmdb.org/t/p/w500/")
    /\ SubSeq(url, 1, Len("https://image.tmdb.org/t/p/w500/")) = "https://image.tmdb.org/t/p/w500/"

\* The direct fetch_poster call has returned or raised.
Fetched == pc = "fetched"
Att == fetched.attempt
Res == fetched.result

\* The HTTP attempt succeeded with a JSON object as its body.
GotObject ==
    /\ Att.exc = "None"
    /\ Att.status_code < 400
    /\ Att.body.decodable
    /\ Att.body.is_dict

\* ... whose poster_path is a non-empty string.
GotPosterPath ==
    /\ GotObject
    /\ Att.body.has_key
    /\ Att.body.poster_path.t = "str"
    /\ Att.body.poster_path.s # ""

\* ... whose poster_path is absent, null or empty.
GotNoPosterPath ==
    /\ GotObject
    /\ \/ ~Att.body.has_key
       \/ Att.body.poster_path.t = "null"
       \/ Att.body.poster_path.t = "str" /\ Att.body.poster_path.s = ""

TimedOut == Att.exc \in {"ReadTimeout", "ConnectTimeout"}
ConnectionFailed == Att.exc \in {"ConnectionError", "SSLError"}
BadStatus == Att.exc = "None" /\ Att.status_code >= 400
OtherRequestFailure == Att.exc = "TooManyRedirects" \/ BadStatus
Undecodable == Att.exc = "None" /\ Att.status_code < 400 /\ ~Att.body.decodable
Unexpected ==
    \/ Att.exc = "ValueError"
    \/ Att.exc = "None" /\ Att.status_code < 400 /\ Att.body.decodable /\ ~GotObject
    \/ GotObject /\ Att.body.has_key /\ Att.body.poster_path.t = "num"
                 /\ Att.body.poster_path.n # 0

---------------------------------------------------------------------------
(* fetch_poster: C4 - C7, C10, under SpecFetch *)

\* C4: whatever the HTTP attempt does, fetch_poster returns a URL string and
\* no exception leaves it.
C4_NeverFails ==
    Fetched =>
        /\ Res.raised = "None"
        /\ SubSeq(Res.url, 1, 8) = "https://"
        /\ Res.url \in Placeholders \/ IsComposed(Res.url)

\* An exception that is no requests exception was raised and the call still
\* returned a URL.
C4_Witness ==
    /\ Fetched
    /\ Att.exc = "ValueError"
    /\ Res.raised = "None"
    /\ Res.url = "https://placehold.co/500x750/ff0000/ffffff?text=Unknown+Error"

\* C5: a timeout returns the timeout placeholder, a connection failure the
\* connection-error placeholder, any other request failure the API-error
\* placeholder, any other failure the unknown-error placeholder (an
\* undecodable body is one of the last two); the placeholders are pairwise
\* distinct and no composed CDN URL is one of them.
C5_PlaceholderPerFailure ==
    /\ Fetched =>
          /\ TimedOut => Res.url = TimeoutUrl
          /\ ConnectionFailed => Res.url = ConnectionUrl
          /\ OtherRequestFailure => Res.url = ApiErrorUrl
          /\ Unexpected => Res.url = UnknownUrl
          /\ Undecodable => Res.url \in {ApiErrorUrl, UnknownUrl}
          /\ (Res.url \in ErrorPlaceholders) =>
                Res.diag = Diag("error", Res.diag.kind, fetched.movie_id, "")
    /\ Cardinality(Placeholders) = 5
    /\ \A u \in Placeholders : ~IsComposed(u)
    /\ \A u \in outputs : IsComposed(u) => u \notin Placeholders

\* A timeout while connecting, which is a ConnectionError too, gave the
\* timeout placeholder.
C5_Witness ==
    /\ Fetched
    /\ Att.exc = "ConnectTimeout"
    /\ Res.url = "https://placehold.co/500x750/ff0000/ffffff?text=Timeout+Error"
    /\ {u \in outputs : IsComposed(u)} # {}

\* C6: a successful attempt whose body carries a non-empty poster_path returns
\* "https://image.tmdb.org/t/p/w500/" followed by that path, with no diagnostic.
C6_ComposedUrl ==
    (Fetched /\ GotPosterPath) =>
        /\ Res.raised = "None"
        /\ Res.url = "https://image.tmdb.org/t/p/w500/" \o Att.body.poster_path.s
        /\ Res.diag = NoDiag

\* Two calls found a poster, with different paths.
C6_Witness ==
    /\ Fetched
    /\ GotPosterPath
    /\ Res.url = "https://image.tmdb.org/t/p/w500/poster.png"
    /\ "https://image.tmdb.org/t/p/w500//kqjL17yufvn9OVLyXYpvtyrFfak.jpg" \in outputs

\* C7: a successful attempt whose poster_path is null, absent or empty emits a
\* diagnostic and returns the no-poster placeholder, which is neither a
\* composed CDN URL nor an error placeholder.
C7_NoPoster ==
    (Fetched /\ GotNoPosterPath) =>
        /\ Res.raised = "None"
        /\ Res.url = NoPosterUrl
        /\ Res.diag = Diag("warning", "no poster path", fetched.movie_id, "")
        /\ ~IsComposed(Res.url)
        /\ Res.url \notin ErrorPlaceholders

\* The poster_path was the empty string.
C7_Witness ==
    /\ Fetched
    /\ GotObject
    /\ Att.body.has_key
    /\ Att.body.poster_path = JsonStr("")
    /\ Res.url = "https://placehold.co/500x750/cccccc/000000?text=No+Poster"
    /\ Res.diag.level = "warning"

\* The output class of a URL: "real" for a composed CDN URL, else the URL.
Class(url) == IF IsComposed(url) THEN "real" ELSE url
OutputClasses == {Class(u) : u \in outputs}

\* The outcome category of the attempt, decided by what happened.
Category ==
    CASE GotPosterPath -> "poster"
      [] GotNoPosterPath -> "no poster"
      [] GotObject /\ Att.body.poster_path = JsonNum(0) -> "no poster"
      [] TimedOut -> "timeout"
      [] ConnectionFailed -> "connection"
      [] OtherRequestFailure -> "request"
      [] Undecodable /\ Att.body.json_exc = "JSONDecodeError" -> "request"
      [] OTHER -> "unexpected"

ClassOf(category) ==
    CASE category = "poster" -> "real"
      [] category = "no poster" -> NoPosterUrl
      [] category = "timeout" -> TimeoutUrl
      [] category = "connection" -> ConnectionUrl
      [] category = "request" -> ApiErrorUrl
      [] category = "unexpected" -> UnknownUrl

\* C10 as stated: five outcome categories, so at most five output classes (a
\* real URL or one of four placeholders) are ever returned.
C10_FiveClasses == Cardinality(OutputClasses) <= 5

\* C10 as amended: every call ends in exactly one of six outcome categories,
\* each with its own output class: a real URL or one of five pairwise distinct
\* placeholders.
C10_SixClasses ==
    /\ Cardinality(OutputClasses) <= 6
    /\ Cardinality({ClassOf(c) : c \in {"poster", "no poster", "timeout", "connection",
                                        "request", "unexpected"}}) = 6
    /\ Fetched => Res.raised = "None" /\ Class(Res.url) = ClassOf(Category)

\* Calls have ended in all six output classes.
C10_Witness == Fetched /\ Cardinality(OutputClasses) = 6

---------------------------------------------------------------------------
(* recommend: C1 - C3, C8, C9, under Spec *)

Returned == pc = "returned"
Names == recommended_movie_names
Posters == recommended_movie_posters

\* C1: for a title that occurs exactly once, recommend returns exactly 5 names
\* (n - 1 of a catalog of at most 6) and none of them is the query title.
C1_CountAndNotSelf ==
    (Returned /\ Occurrences(movie) = 1) =>
        /\ Len(Names) = ExpectedCount
        /\ \A k \in 1..Len(Names) : Names[k] # movie

\* What a call for a present title returns when nothing went before it.
NormalNames(title) ==
    LET sel == Selected(Distances(title))
    IN  [k \in 1..Len(sel) |-> Row(sel[k][1]).title]

\* C2: for a title no row has, recommend returns two empty sequences, emits
\* the not-found diagnostic and requests nothing; and a call for a present
\* title that follows such a call returns its normal result.
C2_NotFound ==
    /\ (Returned /\ ~Found) =>
          /\ Names = <<>>
          /\ Posters = <<>>
          /\ diagnostics = <<Diag("error", "not found", 0, movie)>>
          /\ httpLog = <<>>
    /\ (Returned /\ Found /\ prev = "notfound") =>
          /\ Names = NormalNames(movie)
          /\ Len(Posters) = Len(Names)
          /\ Len(httpLog) = Len(Names)
          /\ \A k \in 1..Len(diagnostics) : diagnostics[k].kind # "not found"

\* A call for a present title returned five names right after a call that
\* found no row.
C2_Witness ==
    /\ Returned
    /\ Found
    /\ prev = "notfound"
    /\ Len(Names) = 5
    /\ Len(Posters) = 5

\* C3: the returned names are in descending order of their rows' scores
\* against the query row, and no row left out, other than the query row, has
\* a strictly higher score than a returned row.
C3_DescendingAndTop ==
    (Returned /\ Found) =>
        /\ \A k \in 1..(Len(Names) - 1) : Score(RankRow(k)) >= Score(RankRow(k + 1))
        /\ \A r \in 1..CatalogSize :
              (r # QueryRow /\ r \notin ReturnedRows) =>
                  \A q \in ReturnedRows : Score(r) <= Score(q)

\* The GET a fetch for movie_id sends.
RequestFor(movie_id) ==
    "https://api.themoviedb.org/3/movie/" \o ToString(movie_id)
        \o "?api_key=8265bd1679663a7ea12ac168da84d2e8&language=en-US"

\* The diagnostic the k-th fetch left, if it left one.
DiagOfFetch(k) ==
    LET url == Posters[k]
        id == movies[RankRow(k)].movie_id
    IN  IF url = NoPosterUrl THEN <<Diag("warning", "no poster path", id, "")>>
        ELSE IF url = TimeoutUrl THEN <<Diag("error", "timed out", id, "")>>
        ELSE IF url = ConnectionUrl THEN <<Diag("error", "connection error", id, "")>>
        ELSE IF url = ApiErrorUrl THEN <<Diag("error", "error fetching poster", id, "")>>
        ELSE IF url = UnknownUrl THEN <<Diag("error", "unexpected error", id, "")>>
        ELSE <<>>

RECURSIVE DiagsOfFetches(_)
DiagsOfFetches(k) == IF k = 0 THEN <<>> ELSE DiagsOfFetches(k - 1) \o DiagOfFetch(k)

\* C8: for a present title recommend completes whatever each fetch does: no
\* exception leaves it, a failed fetch does not stop the later ones, names
\* and poster URLs have equal length, and the k-th poster URL is what
\* fetch_poster gave for the catalog id of the row of the k-th name.
C8_CompletesPairwise ==
    /\ pc # "crashed"
    /\ (Found /\ pc \in {"loop", "http", "returned"}) =>
          /\ Len(Names) = i
          /\ Len(Posters) = i
          /\ \A k \in 1..i :
                /\ Names[k] = movies[RankRow(k)].title
                /\ httpLog[k] = RequestFor(movies[RankRow(k)].movie_id)
                /\ Posters[k] \in Placeholders \/ IsComposed(Posters[k])
          /\ diagnostics = DiagsOfFetches(i)
    /\ (Found /\ Returned) => Len(Names) = ExpectedCount

\* The first two fetches failed and the three after them were still made, the
\* last one finding a poster.
C8_Witness ==
    /\ Returned
    /\ Found
    /\ Len(Posters) = 5
    /\ Posters[1] = "https://placehold.co/500x750/ff0000/ffffff?text=Timeout+Error"
    /\ Posters[2] = "https://placehold.co/500x750/ff0000/ffffff?text=Unknown+Error"
    /\ IsComposed(Posters[5])
    /\ Len(diagnostics) >= 2

\* C9: every fetch sends exactly one GET whatever its outcome, recommend makes
\* one fetch per returned title, in rank order and one at a time, so at most
\* 5 GETs per call; and a repeated call sends them all again.
C9_OneAttemptPerTitle ==
    /\ Len(httpLog) <= 5
    /\ Len(httpLog) = Len(Posters) + (IF pc = "http" THEN 1 ELSE 0)
    /\ Found =>
          /\ \A k \in 1..Len(httpLog) : httpLog[k] = RequestFor(movies[RankRow(k)].movie_id)
          /\ \A k \in 1..(Len(httpLog) - 1) : Score(RankRow(k)) >= Score(RankRow(k + 1))
    /\ (Found /\ Returned) =>
          /\ Len(httpLog) = Len(Names)
          /\ Len(httpLog) = ExpectedCount

\* The same call was made twice over; the second made five GETs again, none
\* repeated after a timeout, a connection failure or a bad status.
C9_Witness ==
    /\ Returned
    /\ Found
    /\ prev = "same"
    /\ Len(httpLog) = 5
    /\ Posters[1] = "https://placehold.co/500x750/ff0000/ffffff?text=Timeout+Error"
    /\ Posters[2] = "https://placehold.co/500x750/ff0000/ffffff?text=Connection+Error"
    /\ Posters[3] = "https://placehold.co/500x750/ff0000/ffffff?text=API+Error"

====
